---- MODULE Spec2Model ----
(***************************************************************************)
(* Model of obs-service-bazel_repositories (bazel_repositories.py): the    *)
(* discovery loop of main(), the sandboxed child sub(), the loopback       *)
(* helper ns_lo_up(), the fetch pool of process_urls()/process_url() and   *)
(* the finalisation (prune, compress_cache, update_spec).                  *)
(***************************************************************************)
EXTENDS Integers, Sequences, FiniteSets, TLC

(* ------------------------------ bounds -------------------------------- *)
\* The round counter is a history variable (the code keeps none); it counts
\* the children spawned and stops counting at MaxRounds.
MaxRounds == 4
\* Longest list of URLs one `bazel fetch` run reports.
MaxReport == 2
\* Number of different byte contents a download can deliver.
NumContents == 2
\* The network delivers at most this many successful downloads in one run;
\* further downloads fail (which the code tolerates), so all_urls stays finite.
MaxOutcomes == 2
\* Longest *.spec file (in lines) and longest manifest update_spec is applied to
\* in the runs that start at update_spec.
MaxLines == 3
MaxManifest == 2

(* ------------------------------- data --------------------------------- *)
\* A URL is a sequence of tokens, the host and then the segments of the path;
\* "e in url" (substring) is modelled as "e is a contiguous subsequence of url".
UrlAcme == <<"acme.example", "org", "proj", "a.tgz">>
UrlOther == <<"other.example", "org", "lib", "a.tgz">>
\* The URLs the build tool reports.
URLs == {UrlAcme, UrlOther}

\* Further URLs a manifest handed to update_spec can hold: with a version, with
\* a name in capitals, from the mirror, and with a path of one segment only.
UrlV1 == <<"github.com", "org", "proj", "1.0.0.tgz">>
UrlV2 == <<"github.com", "org", "Proj", "2.0.0.tgz">>
UrlMirror == <<"mirror.bazel.build", "github.com", "org", "proj", "1.0.0.tgz">>
UrlShort == <<"short.example", "a.tgz">>
ManifestUrls == {UrlAcme, UrlOther, UrlV1, UrlV2, UrlMirror, UrlShort}

\* The URLs in the order of Python's string comparison.
UrlOrder == <<UrlAcme, UrlV2, UrlV1, UrlMirror, UrlOther, UrlShort>>

\* The values of --exclude the model starts from (already split on ",").
ExcludeLists ==
    { <<>>,
      << <<"acme.example">> >>,
      << <<"b.tgz">>, <<"a.tgz">> >> }

Contents == 1..NumContents
\* The temporary file of a worker that has downloaded nothing (yet).
NoContent == 0
NoTask == <<>>
\* Exit statuses of `bazel fetch`: 0 and one non-zero status.
Statuses == {0, 1}
\* `returncode` before the first report is received.
NoStatus == 2

\* hashlib.sha256(...).hexdigest(): deterministic and collision-free.
Sha256(c) == <<"sha256", c>>
Digests == {Sha256(c) : c \in Contents}

\* What BAZEL_CACHE/content_addressable/sha256/<digest> holds:
\* nothing, an empty directory, a partly copied file, or the file.
Absent == <<"absent", NoContent>>
EmptyDir == <<"dir", NoContent>>
Partial == <<"partial", NoContent>>
File(c) == <<"file", c>>

RECURSIVE SeqToSet(_)
SeqToSet(s) == IF s = <<>> THEN {} ELSE {Head(s)} \cup SeqToSet(Tail(s))

\* All sequences over S of length at most n.
RECURSIVE SeqsUpTo(_, _)
SeqsUpTo(S, n) ==
    IF n = 0 THEN {<<>>}
    ELSE LET shorter == SeqsUpTo(S, n - 1)
         IN  shorter \cup {Append(s, x) : s \in {t \in shorter : Len(t) = n - 1}, x \in S}

\* The orders in which list(set(urls)) can enumerate a set.
Orderings(S) ==
    {s \in SeqsUpTo(S, Cardinality(S)) : Len(s) = Cardinality(S) /\ SeqToSet(s) = S}

\* A line of the file is a sequence of tokens: its first word, the rest of its
\* text, and "\n" when it ends with a newline (only the last line of a file may
\* not).
TextLine(word, arg, nl) == <<word>> \o arg \o (IF nl THEN <<"\n">> ELSE <<>>)

AUTOGEN_HEADER == TextLine("# AUTOGENERATED BY obs-service-bazel_repositories", <<>>, TRUE)
AUTOGEN_FOOTER == TextLine("# END obs-service-bazel_repositories", <<>>, TRUE)

\* Lines of a *.spec file as its author writes them.
NameLine == TextLine("Name", <<"proj">>, TRUE)
SourceLine == TextLine("Source", <<"0:", "proj.tar.gz">>, TRUE)
BuildRequiresLine == TextLine("BuildRequires", <<"bazel">>, TRUE)
BuildLine == TextLine("%build", <<>>, TRUE)

\* The *.spec file the service starts from, after clean_spec() has removed the
\* generated blocks of an earlier run.
CleanSpecFile == <<NameLine, SourceLine, BuildRequiresLine, BuildLine>>

VARIABLES
    exclude,        \* main: the exclusion substrings
    mainPc,         \* main: position of the coordinator
    returncode,     \* main: status received from the child (NoStatus before)
    urls,           \* main: URL list received from the child
    all_urls,       \* main: outcomes of all rounds
    new_urls,       \* process_urls: outcomes collected from the pool
    batch,          \* process_urls: the de-duplicated URLs, in dispatch order
    got,            \* process_urls: how many results of imap were consumed
    pruneIdx,       \* main: index of the prune loop over all_urls
    filtered_urls,  \* main: the accepted URLs
    manifest,       \* the list update_spec received (<<>> before)
    archive,        \* content of vendor.tar.gz (<<>> before, else <<tree>>)
    specFile,       \* the lines of the package's *.spec file
    round,          \* history: children spawned so far (up to MaxRounds)
    alive,          \* number of sandboxed child processes alive
    childPc,        \* sub: position of the current child (where it died, if crashed)
    crashed,        \* the current child died before sending its report
    nsOk,           \* result of libc.unshare in the current child ("unset" before)
    report,         \* sub: (returncode, urls) of bazel fetch, before it is sent
    helperPc,       \* ns_lo_up process of the current round
    toParent,       \* pipe: messages child -> parent
    toChild,        \* pipe: messages parent -> child
    taskPc,         \* process_url: position of the worker of each URL
    taskContent,    \* process_url: bytes of the temporary file of each URL
    lock,           \* manager.Lock(): the URL whose worker holds it, or NoTask
    cacheRoot,      \* whether the directory CACHEDIR exists
    cache           \* CACHEDIR: digest -> Absent, EmptyDir, Partial or File(c)

mainVars == <<exclude, mainPc, returncode, urls, all_urls, new_urls, batch, got,
              pruneIdx, filtered_urls, manifest, archive, specFile>>
childVars == <<round, alive, childPc, crashed, nsOk, report>>
pipeVars == <<toParent, toChild>>
taskVars == <<taskPc, taskContent, lock>>
cacheVars == <<cacheRoot, cache>>
vars == <<mainVars, childVars, helperPc, pipeVars, taskVars, cacheVars>>

Init ==
    /\ exclude \in ExcludeLists
    /\ mainPc = "spawn"
    /\ returncode = NoStatus
    /\ urls = <<>>
    /\ all_urls = <<>>
    /\ new_urls = <<>>
    /\ batch = <<>>
    /\ got = 0
    /\ pruneIdx = 1
    /\ filtered_urls = <<>>
    /\ manifest = <<>>
    /\ archive = <<>>
    /\ specFile = CleanSpecFile
    /\ round = 0
    /\ alive = 0
    /\ childPc = "none"
    /\ crashed = FALSE
    /\ nsOk = "unset"
    /\ report = <<>>
    /\ helperPc = "none"
    /\ toParent = <<>>
    /\ toChild = <<>>
    /\ taskPc = [u \in URLs |-> "idle"]
    /\ taskContent = [u \in URLs |-> NoContent]
    /\ lock = NoTask
    /\ cacheRoot = FALSE
    /\ cache = [d \in Digests |-> Absent]

(* ------------------------- sub(): the child --------------------------- *)
ChildLive == childPc \in {"created", "unshared", "await", "running", "reporting"} /\ ~crashed

\* The lists `urls += URL_PATTERN.findall(line_s)` can build: any order, with
\* repetitions.
Reports == SeqsUpTo(URLs, MaxReport)

\* os.chdir(root_dir); libc.unshare(CLONE_NEWUSER | CLONE_NEWNET). ctypes does not
\* raise when unshare returns -1: the result is dropped and the child goes on.
ChildUnshare ==
    /\ childPc = "created" /\ ~crashed
    /\ \E res \in {"ok", "failed"} : nsOk' = res
    /\ childPc' = "unshared"
    /\ UNCHANGED <<round, alive, crashed, report>>
    /\ UNCHANGED <<mainVars, helperPc, pipeVars, taskVars, cacheVars>>

\* conn.send(1): "namespaces created".
ChildSendNs ==
    /\ childPc = "unshared" /\ ~crashed
    /\ toParent' = Append(toParent, <<"ns">>)
    /\ childPc' = "await"
    /\ UNCHANGED <<round, alive, crashed, nsOk, report, toChild>>
    /\ UNCHANGED <<mainVars, helperPc, taskVars, cacheVars>>

\* conn.recv(): blocks until the parent's message arrives; then bazel is started.
ChildRecvReady ==
    /\ childPc = "await" /\ ~crashed
    /\ toChild # <<>>
    /\ toChild' = Tail(toChild)
    /\ childPc' = "running"
    /\ UNCHANGED <<round, alive, crashed, nsOk, report, toParent>>
    /\ UNCHANGED <<mainVars, helperPc, taskVars, cacheVars>>

\* `bazel fetch` runs to its end: exit status rc, URLs us found in its output.
BazelRun(rc, us) ==
    /\ childPc = "running" /\ ~crashed
    /\ report' = <<rc, us>>
    /\ childPc' = "reporting"
    /\ UNCHANGED <<round, alive, crashed, nsOk>>
    /\ UNCHANGED <<mainVars, helperPc, pipeVars, taskVars, cacheVars>>

\* The build tool is outside the program: any status with any list of URLs.
ChildBazel == \E rc \in Statuses, us \in Reports : BazelRun(rc, us)

\* conn.send((returncode, urls,)); the child reads neither value again.
ChildReport ==
    /\ childPc = "reporting" /\ ~crashed
    /\ toParent' = Append(toParent, report)
    /\ report' = <<>>
    /\ childPc' = "sent"
    /\ UNCHANGED <<round, alive, crashed, nsOk, toChild>>
    /\ UNCHANGED <<mainVars, helperPc, taskVars, cacheVars>>

\* conn.close(); sub returns and the process ends.
ChildExit ==
    /\ childPc = "sent"
    /\ childPc' = "exited"
    /\ alive' = alive - 1
    /\ UNCHANGED <<round, crashed, nsOk, report>>
    /\ UNCHANGED <<mainVars, helperPc, pipeVars, taskVars, cacheVars>>

\* The child dies before conn.send((returncode, urls,)): os.chdir or Popen raises,
\* or the process is killed. childPc keeps the place where it died.
ChildCrash ==
    /\ ChildLive
    /\ crashed' = TRUE
    /\ alive' = alive - 1
    /\ UNCHANGED <<round, childPc, nsOk, report>>
    /\ UNCHANGED <<mainVars, helperPc, pipeVars, taskVars, cacheVars>>

(* ----------------------- ns_lo_up(): the helper ----------------------- *)
\* setns(pid); lo_up(): opening /proc/<pid>/ns/* or the ioctl may raise, and the
\* helper process then ends with a non-zero exit code.
HelperRun ==
    /\ helperPc = "started"
    /\ \E ok \in BOOLEAN : helperPc' = IF ok THEN "ok" ELSE "fail"
    /\ UNCHANGED <<mainVars, childVars, pipeVars, taskVars, cacheVars>>

(* --------------------- process_url(): one worker ---------------------- *)
\* "e in url": e occurs in url as a contiguous piece (the empty e always does).
IsSubstring(e, url) ==
    \E i \in 0..(Len(url) - Len(e)) : SubSeq(url, i + 1, i + Len(e)) = e

\* excluded = False; for e in exclude: if e in url: excluded = True
RECURSIVE Excluded(_, _)
Excluded(excl, url) ==
    IF excl = <<>> THEN FALSE
    ELSE IF IsSubstring(Head(excl), url) THEN TRUE
    ELSE Excluded(Tail(excl), url)

\* Mutant of CachePath: the digest does not depend on the bytes stored.
CachePathMixedUp(u) == Sha256(1)

\* os.path.join(CACHEDIR, sha256sum_digest, "file"), named by its digest: the
\* digest is taken over the bytes of the temporary file.
CachePath(u) == Sha256(taskContent[u])

\* return url, cache_filename, excluded
Outcome(u) == [url |-> u, cache_path |-> CachePath(u), excluded |-> Excluded(exclude, u)]

\* Successful downloads so far: those recorded and those of the running batch.
Delivered ==
    Len(all_urls) + Cardinality({u \in URLs : taskPc[u] \notin {"idle", "download", "dropped"}})

\* The contents seen so far in this run. Contents are named in the order in
\* which they first appear: nothing in the program depends on which bytes a
\* download delivers, only on whether two downloads deliver the same.
SeenContents ==
    {taskContent[u] : u \in URLs} \cup {all_urls[i].cache_path[2] : i \in 1..Len(all_urls)}

FreshOrSeen == {c \in Contents : c = 1 \/ c \in SeenContents \/ (c - 1) \in SeenContents}

\* download(url, filename) returns: the temporary file holds content c.
DownloadOk(u) ==
    /\ taskPc[u] = "download"
    /\ Delivered < MaxOutcomes
    /\ \E c \in FreshOrSeen : taskContent' = [taskContent EXCEPT ![u] = c]
    /\ taskPc' = [taskPc EXCEPT ![u] = "hash"]
    /\ UNCHANGED <<lock, mainVars, childVars, helperPc, pipeVars, cacheVars>>

\* except (HTTPError, URLError): log.warning(...); return  (the result is None)
DownloadFail(u) ==
    /\ taskPc[u] = "download"
    /\ taskPc' = [taskPc EXCEPT ![u] = "dropped"]
    /\ UNCHANGED <<taskContent, lock, mainVars, childVars, helperPc, pipeVars, cacheVars>>

\* The sha256 loop over the temporary file.
HashFile(u) ==
    /\ taskPc[u] = "hash"
    /\ taskPc' = [taskPc EXCEPT ![u] = "acquire"]
    /\ UNCHANGED <<taskContent, lock, mainVars, childVars, helperPc, pipeVars, cacheVars>>

\* Mutant of Acquire: the lock is taken without waiting for it to be free.
AcquireNoWait(u) ==
    /\ taskPc[u] = "acquire"
    /\ lock' = u
    /\ taskPc' = [taskPc EXCEPT ![u] = "mkdir"]
    /\ UNCHANGED <<taskContent, mainVars, childVars, helperPc, pipeVars, cacheVars>>

\* lock.acquire()
Acquire(u) ==
    /\ taskPc[u] = "acquire"
    /\ lock = NoTask
    /\ lock' = u
    /\ taskPc' = [taskPc EXCEPT ![u] = "mkdir"]
    /\ UNCHANGED <<taskContent, mainVars, childVars, helperPc, pipeVars, cacheVars>>

\* Mutant of Makedirs: the digest directory is made anew, an entry that was
\* there is lost.
MakedirsFresh(u) ==
    /\ taskPc[u] = "mkdir"
    /\ cacheRoot' = TRUE
    /\ cache' = [cache EXCEPT ![CachePath(u)] = EmptyDir]
    /\ taskPc' = [taskPc EXCEPT ![u] = "move"]
    /\ UNCHANGED <<taskContent, lock, mainVars, childVars, helperPc, pipeVars>>

\* os.makedirs(os.path.join(CACHEDIR, digest), exist_ok=True)
Makedirs(u) ==
    /\ taskPc[u] = "mkdir"
    /\ cacheRoot' = TRUE
    /\ cache' = [cache EXCEPT ![CachePath(u)] = IF @ = Absent THEN EmptyDir ELSE @]
    /\ taskPc' = [taskPc EXCEPT ![u] = "move"]
    /\ UNCHANGED <<taskContent, lock, mainVars, childVars, helperPc, pipeVars>>

\* os.makedirs raises (disk full, permission): the worker ends with the
\* exception, lock.release() is not reached.
MakedirsFail(u) ==
    /\ taskPc[u] = "mkdir"
    /\ taskPc' = [taskPc EXCEPT ![u] = "raised"]
    /\ UNCHANGED <<taskContent, lock, mainVars, childVars, helperPc, pipeVars, cacheVars>>

\* shutil.move(filename, cache_filename) by os.rename: the file is replaced at once.
MoveRename(u) ==
    /\ taskPc[u] = "move"
    /\ cache[CachePath(u)] # Absent
    /\ cache' = [cache EXCEPT ![CachePath(u)] = File(taskContent[u])]
    /\ taskPc' = [taskPc EXCEPT ![u] = "release"]
    /\ UNCHANGED <<cacheRoot, taskContent, lock, mainVars, childVars, helperPc, pipeVars>>

\* shutil.move falls back to copy + unlink when rename is refused (another file
\* system): the destination is opened, truncated and written piece by piece.
MoveCopyBegin(u) ==
    /\ taskPc[u] = "move"
    /\ cache[CachePath(u)] # Absent
    /\ cache' = [cache EXCEPT ![CachePath(u)] = Partial]
    /\ taskPc' = [taskPc EXCEPT ![u] = "copying"]
    /\ UNCHANGED <<cacheRoot, taskContent, lock, mainVars, childVars, helperPc, pipeVars>>

MoveCopyEnd(u) ==
    /\ taskPc[u] = "copying"
    /\ cache' = [cache EXCEPT ![CachePath(u)] = File(taskContent[u])]
    /\ taskPc' = [taskPc EXCEPT ![u] = "release"]
    /\ UNCHANGED <<cacheRoot, taskContent, lock, mainVars, childVars, helperPc, pipeVars>>

\* shutil.move raises (before anything was written, or in the middle of the copy).
MoveFail(u) ==
    /\ taskPc[u] \in {"move", "copying"}
    /\ taskPc' = [taskPc EXCEPT ![u] = "raised"]
    /\ UNCHANGED <<taskContent, lock, mainVars, childVars, helperPc, pipeVars, cacheVars>>

\* Mutant of Release: the worker goes on without giving the lock back.
ReleaseKept(u) ==
    /\ taskPc[u] = "release"
    /\ taskPc' = [taskPc EXCEPT ![u] = "exclude"]
    /\ UNCHANGED <<taskContent, lock, mainVars, childVars, helperPc, pipeVars, cacheVars>>

\* lock.release()
Release(u) ==
    /\ taskPc[u] = "release"
    /\ lock' = NoTask
    /\ taskPc' = [taskPc EXCEPT ![u] = "exclude"]
    /\ UNCHANGED <<taskContent, mainVars, childVars, helperPc, pipeVars, cacheVars>>

\* The exclusion loop and `return url, cache_filename, excluded`.
EvalExclude(u) ==
    /\ taskPc[u] = "exclude"
    /\ taskPc' = [taskPc EXCEPT ![u] = "done"]
    /\ UNCHANGED <<taskContent, lock, mainVars, childVars, helperPc, pipeVars, cacheVars>>

(* ------------------------ main(): the coordinator --------------------- *)
\* p = multiprocessing.Process(target=sub, ...); p.start()
MainSpawn ==
    /\ mainPc = "spawn"
    /\ mainPc' = "recv_ns"
    /\ round' = IF round < MaxRounds THEN round + 1 ELSE round
    /\ alive' = alive + 1
    /\ childPc' = "created"
    /\ crashed' = FALSE
    /\ nsOk' = "unset"
    /\ report' = <<>>
    /\ helperPc' = "none"
    /\ UNCHANGED <<exclude, returncode, urls, all_urls, new_urls, batch, got, pruneIdx,
                   filtered_urls, manifest, archive, specFile>>
    /\ UNCHANGED <<pipeVars, taskVars, cacheVars>>

\* parent_conn.recv(): wait for the child to unshare namespaces.
MainRecvNs ==
    /\ mainPc = "recv_ns"
    /\ toParent # <<>>
    /\ toParent' = Tail(toParent)
    /\ mainPc' = "start_helper"
    /\ UNCHANGED <<exclude, returncode, urls, all_urls, new_urls, batch, got, pruneIdx,
                   filtered_urls, manifest, archive, specFile>>
    /\ UNCHANGED <<toChild, childVars, helperPc, taskVars, cacheVars>>

\* p_lo_up = multiprocessing.Process(target=ns_lo_up, args=(p.pid,)); p_lo_up.start()
MainStartHelper ==
    /\ mainPc = "start_helper"
    /\ helperPc' = "started"
    /\ mainPc' = "join_helper"
    /\ UNCHANGED <<exclude, returncode, urls, all_urls, new_urls, batch, got, pruneIdx,
                   filtered_urls, manifest, archive, specFile>>
    /\ UNCHANGED <<pipeVars, childVars, taskVars, cacheVars>>

\* Mutant of MainJoinHelper: p_lo_up.join() left out.
MainJoinHelperNoWait ==
    /\ mainPc = "join_helper"
    /\ mainPc' = "send_ready"
    /\ UNCHANGED <<exclude, returncode, urls, all_urls, new_urls, batch, got, pruneIdx,
                   filtered_urls, manifest, archive, specFile>>
    /\ UNCHANGED <<pipeVars, childVars, helperPc, taskVars, cacheVars>>

\* p_lo_up.join(): returns when the helper has ended; its exit code is not read.
MainJoinHelper ==
    /\ mainPc = "join_helper"
    /\ helperPc \in {"ok", "fail"}
    /\ mainPc' = "send_ready"
    /\ UNCHANGED <<exclude, returncode, urls, all_urls, new_urls, batch, got, pruneIdx,
                   filtered_urls, manifest, archive, specFile>>
    /\ UNCHANGED <<pipeVars, childVars, helperPc, taskVars, cacheVars>>

\* parent_conn.send(1): "loopback ready".
MainSendReady ==
    /\ mainPc = "send_ready"
    /\ toChild' = Append(toChild, <<"ready">>)
    /\ mainPc' = "recv_report"
    /\ UNCHANGED <<exclude, returncode, urls, all_urls, new_urls, batch, got, pruneIdx,
                   filtered_urls, manifest, archive, specFile>>
    /\ UNCHANGED <<toParent, childVars, helperPc, taskVars, cacheVars>>

\* returncode, urls = parent_conn.recv()
MainRecvReport ==
    /\ mainPc = "recv_report"
    /\ toParent # <<>>
    /\ toParent' = Tail(toParent)
    /\ IF Len(Head(toParent)) = 2
       THEN /\ returncode' = Head(toParent)[1]
            /\ urls' = Head(toParent)[2]
            /\ mainPc' = "join_child"
       ELSE /\ mainPc' = "failed"
            /\ UNCHANGED <<returncode, urls>>
    /\ UNCHANGED <<exclude, all_urls, new_urls, batch, got, pruneIdx, filtered_urls,
                   manifest, archive, specFile>>
    /\ UNCHANGED <<toChild, childVars, helperPc, taskVars, cacheVars>>

\* Mutant of MainJoinChild: p.join() left out.
MainJoinChildNoWait ==
    /\ mainPc = "join_child"
    /\ mainPc' = "check"
    /\ UNCHANGED <<exclude, returncode, urls, all_urls, new_urls, batch, got, pruneIdx,
                   filtered_urls, manifest, archive, specFile>>
    /\ UNCHANGED <<pipeVars, childVars, helperPc, taskVars, cacheVars>>

\* p.join()
MainJoinChild ==
    /\ mainPc = "join_child"
    /\ childPc = "exited" \/ crashed
    /\ mainPc' = "check"
    /\ UNCHANGED <<exclude, returncode, urls, all_urls, new_urls, batch, got, pruneIdx,
                   filtered_urls, manifest, archive, specFile>>
    /\ UNCHANGED <<pipeVars, childVars, helperPc, taskVars, cacheVars>>

\* Mutant of Dispatch: the duplicates are not removed.
DispatchNoDedup ==
    /\ batch' = urls
    /\ taskPc' = [u \in URLs |-> IF u \in SeqToSet(urls) THEN "download" ELSE "idle"]
    /\ taskContent' = [u \in URLs |-> NoContent]
    /\ new_urls' = <<>>
    /\ got' = 0
    /\ mainPc' = "collect"

\* process_urls, up to pool.imap: urls = list(set(urls)); one worker call per URL.
Dispatch ==
    /\ \E b \in Orderings(SeqToSet(urls)) : batch' = b
    /\ taskPc' = [u \in URLs |-> IF u \in SeqToSet(urls) THEN "download" ELSE "idle"]
    /\ taskContent' = [u \in URLs |-> NoContent]
    /\ new_urls' = <<>>
    /\ got' = 0
    /\ mainPc' = "collect"

\* Mutant of MainCheck: the `break` on status 0 left out.
MainCheckNoBreak ==
    /\ mainPc = "check"
    /\ Dispatch
    /\ UNCHANGED <<exclude, returncode, urls, all_urls, pruneIdx, filtered_urls,
                   manifest, archive, specFile>>
    /\ UNCHANGED <<lock, pipeVars, childVars, helperPc, cacheVars>>

\* if returncode == 0: break;  else new_urls = process_urls(urls, exclude)
MainCheck ==
    /\ mainPc = "check"
    /\ IF returncode = 0
       THEN /\ mainPc' = "prune"
            /\ UNCHANGED <<new_urls, batch, got, taskPc, taskContent>>
       ELSE Dispatch
    /\ UNCHANGED <<exclude, returncode, urls, all_urls, pruneIdx, filtered_urls,
                   manifest, archive, specFile>>
    /\ UNCHANGED <<lock, pipeVars, childVars, helperPc, cacheVars>>

\* Mutant of Collected: the `if x is not None` filter left out.
CollectedNoFilter(u) == <<Outcome(u)>>

\* What the list comprehension keeps of the result of the worker of u:
\* [x for x in processed_urls if x is not None]
Collected(u) == IF taskPc[u] = "done" THEN <<Outcome(u)>> ELSE <<>>

\* The results imap has ready, in dispatch order: the next one is taken when its
\* worker has ended; a worker's exception is raised again here.
MainCollect ==
    /\ mainPc = "collect"
    /\ IF got < Len(batch)
       THEN /\ taskPc[batch[got + 1]] \in {"done", "dropped", "raised"}
            /\ got' = got + 1
            /\ IF taskPc[batch[got + 1]] = "raised"
               THEN mainPc' = "failed" /\ UNCHANGED new_urls
               ELSE /\ new_urls' = new_urls \o Collected(batch[got + 1])
                    /\ UNCHANGED mainPc
       ELSE /\ mainPc' = "extend"
            /\ UNCHANGED <<got, new_urls>>
    /\ UNCHANGED <<exclude, returncode, urls, all_urls, batch, pruneIdx, filtered_urls,
                   manifest, archive, specFile>>
    /\ UNCHANGED <<pipeVars, childVars, helperPc, taskVars, cacheVars>>

\* Mutant of MainExtend: the blob of an excluded outcome is deleted inside the
\* loop, right after its batch.
MainExtendPruning ==
    /\ mainPc = "extend"
    /\ all_urls' = all_urls \o new_urls
    /\ cache' = [d \in Digests |->
                    IF \E i \in 1..Len(new_urls) :
                           new_urls[i].excluded /\ new_urls[i].cache_path = d
                    THEN EmptyDir ELSE cache[d]]
    /\ mainPc' = "spawn"
    /\ new_urls' = <<>>
    /\ batch' = <<>>
    /\ got' = 0
    /\ taskPc' = [u \in URLs |-> "idle"]
    /\ urls' = <<>>
    /\ taskContent' = [u \in URLs |-> NoContent]
    /\ UNCHANGED <<exclude, returncode, pruneIdx, filtered_urls, manifest, archive, specFile>>
    /\ UNCHANGED <<lock, cacheRoot, pipeVars, childVars, helperPc>>

\* all_urls += new_urls, and the next iteration begins: the report and the batch
\* that ended, its workers and their temporary files are referenced no more.
MainExtend ==
    /\ mainPc = "extend"
    /\ all_urls' = all_urls \o new_urls
    /\ mainPc' = "spawn"
    /\ new_urls' = <<>>
    /\ batch' = <<>>
    /\ got' = 0
    /\ taskPc' = [u \in URLs |-> "idle"]
    /\ urls' = <<>>
    /\ taskContent' = [u \in URLs |-> NoContent]
    /\ UNCHANGED <<exclude, returncode, pruneIdx, filtered_urls, manifest, archive, specFile>>
    /\ UNCHANGED <<lock, pipeVars, childVars, helperPc, cacheVars>>

\* Whether <digest>/file exists.
HasFile(d) == cache[d] \notin {Absent, EmptyDir}

\* for url, cache_path, excluded in all_urls:
\*     if excluded: os.unlink(cache_path)  else: filtered_urls.append(url)
\* os.unlink of a missing file raises FileNotFoundError.
MainPrune ==
    /\ mainPc = "prune"
    /\ IF pruneIdx <= Len(all_urls)
       THEN LET o == all_urls[pruneIdx]
            IN  IF o.excluded
                THEN IF HasFile(o.cache_path)
                     THEN /\ cache' = [cache EXCEPT ![o.cache_path] = EmptyDir]
                          /\ pruneIdx' = pruneIdx + 1
                          /\ UNCHANGED <<mainPc, filtered_urls>>
                     ELSE /\ mainPc' = "failed"
                          /\ UNCHANGED <<cache, pruneIdx, filtered_urls>>
                ELSE /\ filtered_urls' = Append(filtered_urls, o.url)
                     /\ pruneIdx' = pruneIdx + 1
                     /\ UNCHANGED <<mainPc, cache>>
       ELSE /\ mainPc' = "compress"
            /\ UNCHANGED <<cache, pruneIdx, filtered_urls>>
    /\ UNCHANGED <<exclude, returncode, urls, all_urls, new_urls, batch, got, manifest,
                   archive, specFile>>
    /\ UNCHANGED <<cacheRoot, pipeVars, childVars, helperPc, taskVars>>

\* compress_cache(): tar.add(CACHEDIR) raises when the directory does not exist;
\* else the tree goes into vendor.tar.gz and shutil.rmtree(CACHEDIR) removes it.
MainCompress ==
    /\ mainPc = "compress"
    /\ IF cacheRoot
       THEN /\ archive' = <<cache>>
            /\ cache' = [d \in Digests |-> Absent]
            /\ cacheRoot' = FALSE
            /\ mainPc' = "update_spec"
       ELSE /\ mainPc' = "failed"
            /\ UNCHANGED <<archive, cache, cacheRoot>>
    /\ UNCHANGED <<exclude, returncode, urls, all_urls, new_urls, batch, got, pruneIdx,
                   filtered_urls, manifest, specFile>>
    /\ UNCHANGED <<pipeVars, childVars, helperPc, taskVars>>

\* Position of a URL in the order of Python's string comparison.
Rank(u) == CHOOSE i \in 1..Len(UrlOrder) : UrlOrder[i] = u

\* list.sort(): insertion of each element behind the elements not greater.
RECURSIVE Insert(_, _)
Insert(u, s) ==
    IF s = <<>> THEN <<u>>
    ELSE IF Rank(u) < Rank(Head(s)) THEN <<u>> \o s
    ELSE <<Head(s)>> \o Insert(u, Tail(s))

RECURSIVE SortUrls(_)
SortUrls(s) == IF s = <<>> THEN <<>> ELSE Insert(s[Len(s)], SortUrls(SubSeq(s, 1, Len(s) - 1)))

(* ------------------- update_spec(): the metadata file ----------------- *)
\* line.startswith(prefix), for a prefix that is the first word of a directive.
StartsWith(line, prefix) == line[1] = prefix

\* line.startswith(marker) for a marker that ends with "\n": the line is the
\* marker, up to and including its newline.
StartsWithLine(line, marker) == line = marker

EndsWithNewline(line) == line[Len(line)] = "\n"

\* content += text: the text continues a last line that has no newline yet.
AddText(content, lines) ==
    IF lines = <<>> THEN content
    ELSE IF content # <<>> /\ ~EndsWithNewline(content[Len(content)])
    THEN SubSeq(content, 1, Len(content) - 1)
         \o <<content[Len(content)] \o lines[1]>>
         \o Tail(lines)
    ELSE content \o lines

\* name.lower()
Lower(t) == IF t = "Proj" THEN "proj" ELSE t

\* VERSION_PATTERN.search(url), else SHA1_PATTERN.search(url): the first match
\* in the URL, <<>> for None. No token of the model holds 40 word characters.
VersionIn(t) ==
    IF t = "1.0.0.tgz" THEN <<"1.0.0">> ELSE IF t = "2.0.0.tgz" THEN <<"2.0.0">> ELSE <<>>

RECURSIVE Version(_)
Version(url) ==
    IF url = <<>> THEN <<>>
    ELSE IF VersionIn(Head(url)) # <<>> THEN VersionIn(Head(url))
    ELSE Version(Tail(url))

\* url_parts[2] (url_parts[0] is "/"), or url_parts[3] for a mirror URL.
NameRaises(url) ==
    \/ Len(url) < 3
    \/ IsSubstring(<<"mirror.bazel.build">>, url) /\ Len(url) < 4

Name(url) ==
    Lower(IF IsSubstring(<<"mirror.bazel.build">>, url) THEN url[4] ELSE url[3])

\* The names in the order of Python's string comparison.
NameOrder == <<"lib", "proj">>
NameRank(n) == CHOOSE i \in 1..Len(NameOrder) : NameOrder[i] = n

\* deps_names_versions(urls): deps = list(set(deps)); deps.sort(key=name). The
\* set is enumerated in an order that differs from one run of the interpreter
\* to the next (string hashes are salted) and the sort is stable: entries with
\* the same name come out in any order.
deps_names_versions(url_list) ==
    LET deps == {<<Name(url_list[i]), Version(url_list[i])>> : i \in 1..Len(url_list)}
    IN  {s \in Orderings(deps) :
            \A i \in 1..(Len(s) - 1) : NameRank(s[i][1]) <= NameRank(s[i + 1][1])}

\* Whether deps_names_versions(urls) raises IndexError.
DepsRaise(url_list) == \E i \in 1..Len(url_list) : NameRaises(url_list[i])

\* spec_provides, for one order of the dependencies.
spec_provides(deps) ==
    <<AUTOGEN_HEADER>>
    \o [i \in 1..Len(deps) |-> TextLine("Provides:", deps[i][2] \o <<deps[i][1]>>, TRUE)]
    \o <<AUTOGEN_FOOTER>>

spec_setup_vendor == <<AUTOGEN_HEADER, TextLine("%setup", <<"-q -T -D -a 1">>, TRUE), AUTOGEN_FOOTER>>

spec_sources(url_list) ==
    <<AUTOGEN_HEADER, TextLine("# vendor.tar.gz contains", <<>>, TRUE)>>
    \o [i \in 1..Len(url_list) |-> TextLine("# - ", url_list[i], TRUE)]
    \o <<TextLine("Source", <<"1:", "vendor.tar.gz">>, TRUE), AUTOGEN_FOOTER>>

\* One pass of the loop `for line in f` of update_spec, from the state st of its
\* locals; once spec_provides has raised nothing more happens.
UpdateSpecStep(st, line, url_list, deps) ==
    LET provides == st.generate_provides /\ StartsWith(line, "BuildRequires")
        sources == st.generate_sources /\ StartsWith(line, "Source")
        c1 == IF provides THEN AddText(st.content, spec_provides(deps)) ELSE st.content
        c2 == IF StartsWith(line, "%build") THEN AddText(c1, spec_setup_vendor) ELSE c1
        c3 == AddText(c2, <<line>>)
        c4 == IF sources THEN AddText(c3, spec_sources(url_list)) ELSE c3
    IN  IF st.raised THEN st
        ELSE IF st.ignore
        THEN [st EXCEPT !.ignore = ~StartsWithLine(line, AUTOGEN_FOOTER)]
        ELSE IF StartsWithLine(line, AUTOGEN_HEADER)
        THEN [st EXCEPT !.ignore = TRUE]
        ELSE IF provides /\ DepsRaise(url_list)
        THEN [st EXCEPT !.raised = TRUE]
        ELSE [content |-> c4,
              generate_provides |-> st.generate_provides /\ ~provides,
              generate_sources |-> st.generate_sources /\ ~sources,
              ignore |-> FALSE, raised |-> FALSE]

\* The locals of update_spec after the loop has read the given lines.
RECURSIVE UpdateSpecLoop(_, _, _)
UpdateSpecLoop(lines, url_list, deps) ==
    IF lines = <<>>
    THEN [content |-> <<>>, generate_provides |-> TRUE, generate_sources |-> TRUE,
          ignore |-> FALSE, raised |-> FALSE]
    ELSE CHOOSE after \in
             {UpdateSpecStep(st, lines[Len(lines)], url_list, deps) :
                 st \in {UpdateSpecLoop(SubSeq(lines, 1, Len(lines) - 1), url_list, deps)}} :
             TRUE

\* update_spec(urls) on a file: what the file holds afterwards (f.seek(0);
\* f.write(content); f.truncate()), for every order deps_names_versions can
\* return; the file stays as it is when the loop raises.
update_spec(file, url_list) ==
    LET orders == IF DepsRaise(url_list) THEN {<<>>} ELSE deps_names_versions(url_list)
    IN  {UpdateSpecLoop(file, url_list, deps) : deps \in orders}

\* filtered_urls.sort(); update_spec(filtered_urls)
MainUpdateSpec ==
    /\ mainPc = "update_spec"
    /\ filtered_urls' = SortUrls(filtered_urls)
    /\ manifest' = SortUrls(filtered_urls)
    /\ \E out \in update_spec(specFile, SortUrls(filtered_urls)) :
          IF out.raised
          THEN mainPc' = "failed" /\ UNCHANGED specFile
          ELSE mainPc' = "done" /\ specFile' = out.content
    /\ UNCHANGED <<exclude, returncode, urls, all_urls, new_urls, batch, got, pruneIdx,
                   archive>>
    /\ UNCHANGED <<pipeVars, childVars, helperPc, taskVars, cacheVars>>

(* --------------------------- the whole program ------------------------ *)
MainStep ==
    \/ MainSpawn \/ MainRecvNs \/ MainStartHelper \/ MainJoinHelper \/ MainSendReady
    \/ MainRecvReport \/ MainJoinChild \/ MainCheck \/ MainCollect \/ MainExtend
    \/ MainPrune \/ MainCompress \/ MainUpdateSpec

ChildRun == ChildUnshare \/ ChildSendNs \/ ChildRecvReady \/ ChildReport \/ ChildExit

StoreStep(u) ==
    \/ HashFile(u) \/ Acquire(u) \/ Makedirs(u) \/ MoveRename(u) \/ MoveCopyBegin(u)
    \/ MoveCopyEnd(u) \/ Release(u) \/ EvalExclude(u)

StoreFail(u) == MakedirsFail(u) \/ MoveFail(u)

\* The pool workers are daemon processes of the coordinator: they run while it
\* is inside process_urls and are terminated when it ends with an exception.
PoolAlive == mainPc = "collect"

Next ==
    \/ MainStep
    \/ ChildRun \/ ChildBazel \/ ChildCrash
    \/ HelperRun
    \/ PoolAlive /\ \E u \in URLs : DownloadOk(u) \/ DownloadFail(u) \/ StoreStep(u) \/ StoreFail(u)

Spec == Init /\ [][Next]_vars

\* Every process that can take a step is scheduled: the coordinator, the child
\* (if it does not die), the helper and each pool worker are separate operating
\* system processes.
TaskStep(u) == PoolAlive /\ (DownloadOk(u) \/ DownloadFail(u) \/ StoreStep(u) \/ StoreFail(u))

Fairness ==
    /\ WF_vars(MainStep)
    /\ WF_vars(ChildRun \/ ChildBazel)
    /\ WF_vars(HelperRun)
    /\ \A u \in URLs : WF_vars(TaskStep(u))

FairSpec == Spec /\ Fairness

(* ------------- a well-behaved build tool (fixed-point runs) ------------ *)
\* The dependency closure of the target: the URLs, and for each the URLs whose
\* archives must be cached before the build tool finds out that it needs it.
\* Here: two dependencies that do not depend on each other.
Requires(u) == {}

RECURSIVE Depth(_)
Depth(u) ==
    IF Requires(u) = {} THEN 1
    ELSE 1 + (CHOOSE n \in {Depth(r) : r \in Requires(u)} :
                  \A r \in Requires(u) : Depth(r) <= n)

LongestChain == CHOOSE n \in {Depth(u) : u \in URLs} : \A u \in URLs : Depth(u) <= n
ClosureSize == Cardinality(URLs)

\* A recorded outcome of u has its blob in the cache.
Resident(u) ==
    \E i \in 1..Len(all_urls) : all_urls[i].url = u /\ HasFile(all_urls[i].cache_path)

\* What the build tool can still miss: not cached, and everything it requires is.
Missing == {u \in URLs : ~Resident(u) /\ \A r \in Requires(u) : Resident(r)}

\* Status 0 when nothing is missing; else a non-zero status and a non-empty
\* list of missing URLs (not necessarily all of them).
ChildBazelFix ==
    IF Missing = {}
    THEN BazelRun(0, <<>>)
    ELSE \E us \in Reports : us # <<>> /\ SeqToSet(us) \subseteq Missing /\ BazelRun(1, us)

\* No child dies, every download succeeds, every store succeeds.
NextFix ==
    \/ MainStep
    \/ ChildRun \/ ChildBazelFix
    \/ HelperRun
    \/ PoolAlive /\ \E u \in URLs : DownloadOk(u) \/ StoreStep(u)

FairnessFix ==
    /\ WF_vars(MainStep)
    /\ WF_vars(ChildRun \/ ChildBazelFix)
    /\ WF_vars(HelperRun)
    /\ \A u \in URLs : WF_vars(PoolAlive /\ (DownloadOk(u) \/ StoreStep(u)))

SpecFix == Init /\ [][NextFix]_vars /\ FairnessFix

(* ------------------ update_spec on arbitrary files --------------------- *)
InputLines ==
    {AUTOGEN_HEADER, AUTOGEN_FOOTER, NameLine, SourceLine, BuildRequiresLine, BuildLine}

\* The files of up to MaxLines lines; the last line may lack its newline.
SpecFiles ==
    LET whole == SeqsUpTo(InputLines, MaxLines)
    IN  whole \cup {[f EXCEPT ![Len(f)] = SubSeq(@, 1, Len(@) - 1)] : f \in whole \ {<<>>}}

Manifests == SeqsUpTo(ManifestUrls, MaxManifest) \ {<<>>}

\* main() has reached update_spec with the accepted list m, and the *.spec file
\* is any file.
InitMeta ==
    /\ specFile \in SpecFiles
    /\ filtered_urls \in Manifests
    /\ all_urls = [i \in 1..Len(filtered_urls) |->
                      [url |-> filtered_urls[i], cache_path |-> Sha256(1), excluded |-> FALSE]]
    /\ pruneIdx = Len(filtered_urls) + 1
    /\ archive = <<[d \in Digests |-> IF d = Sha256(1) THEN File(1) ELSE Absent]>>
    /\ exclude = <<>>
    /\ mainPc = "update_spec"
    /\ returncode = 0
    /\ urls = <<>>
    /\ new_urls = <<>>
    /\ batch = <<>>
    /\ got = 0
    /\ manifest = <<>>
    /\ round = 2
    /\ alive = 0
    /\ childPc = "exited"
    /\ crashed = FALSE
    /\ nsOk = "ok"
    /\ report = <<>>
    /\ helperPc = "ok"
    /\ toParent = <<>>
    /\ toChild = <<>>
    /\ taskPc = [u \in URLs |-> "idle"]
    /\ taskContent = [u \in URLs |-> NoContent]
    /\ lock = NoTask
    /\ cacheRoot = FALSE
    /\ cache = [d \in Digests |-> Absent]

\* The service runs once more on the file it has written, with the same
\* manifest: update_spec is applied to its own output.
RerunUpdateSpec ==
    /\ mainPc = "done"
    /\ \E out \in update_spec(specFile, manifest) :
          IF out.raised
          THEN mainPc' = "failed" /\ UNCHANGED specFile
          ELSE mainPc' = "done" /\ specFile' = out.content
    /\ UNCHANGED <<exclude, returncode, urls, all_urls, new_urls, batch, got, pruneIdx,
                   filtered_urls, manifest, archive>>
    /\ UNCHANGED <<pipeVars, childVars, helperPc, taskVars, cacheVars>>

NextMeta == MainUpdateSpec \/ RerunUpdateSpec

SpecMeta == InitMeta /\ [][NextMeta]_vars

(* ============================== claims ================================ *)
BuildStarted == childPc \in {"running", "reporting", "sent", "exited"}
LoopPcs == {"spawn", "recv_ns", "start_helper", "join_helper", "send_ready",
            "recv_report", "join_child", "check", "collect", "extend"}
Archived == mainPc \in {"update_spec", "done"}

\* C1 (as the spec states it): when the cache has been archived, no URL of the
\* accepted list contains an exclusion substring, and for every excluded outcome
\* neither the blob nor its digest directory is in the archived tree.
ExclusionCorrect ==
    Archived =>
        /\ \A i \in 1..Len(filtered_urls) : ~Excluded(exclude, filtered_urls[i])
        /\ \A i \in 1..Len(all_urls) :
              all_urls[i].excluded => archive[1][all_urls[i].cache_path] = Absent

\* The part of C1 the code keeps: no excluded URL is accepted and no blob of an
\* excluded outcome is archived (its digest directory is, empty).
ExcludedBlobsNotArchived ==
    Archived =>
        /\ \A i \in 1..Len(filtered_urls) : ~Excluded(exclude, filtered_urls[i])
        /\ \A i \in 1..Len(all_urls) :
              all_urls[i].excluded => archive[1][all_urls[i].cache_path] = EmptyDir

\* C2: once the coordinator has received status 0, no child is spawned and no
\* fetch batch is started any more, and the loop is left (towards the prune
\* step) only with status 0.
NoRoundAfterSuccess ==
    [][ /\ returncode = 0 => /\ alive' <= alive
                             /\ ~(mainPc' = "collect" /\ mainPc # "collect")
        /\ (mainPc \in LoopPcs /\ mainPc' \notin LoopPcs \cup {"failed"}) => returncode' = 0
      ]_vars

\* C2 witness: the loop was left after a success that followed a failed round.
LeftLoopAfterSecondRound == mainPc = "prune" /\ round = 2 /\ all_urls # <<>>

\* C3: the helper exists only when the child has requested its namespaces and
\* sent "namespaces created"; "loopback ready" is in the pipe, and the build tool
\* started, only when the helper has ended and the parent is past its send.
HandshakeOrder ==
    /\ helperPc # "none" =>
          /\ nsOk # "unset"
          /\ childPc \in {"await", "running", "reporting", "sent", "exited"}
    /\ toChild # <<>> => helperPc \in {"ok", "fail"}
    /\ BuildStarted =>
          /\ helperPc \in {"ok", "fail"}
          /\ mainPc \notin {"recv_ns", "start_helper", "join_helper", "send_ready"}

\* C3 witness: the build tool runs after a complete handshake.
BuildToolRunning == childPc = "running" /\ ~crashed /\ helperPc = "ok" /\ nsOk = "ok"

\* C4: a stored file lies at the path of its own digest, so equal contents share
\* one entry; when a batch has ended, the entry of every successful download holds
\* exactly the downloaded bytes (no partly written file), and no other entry does.
IdempotentStore ==
    /\ \A d \in Digests, c \in Contents : cache[d] = File(c) => d = Sha256(c)
    /\ mainPc = "extend" =>
          \A u \in URLs : taskPc[u] = "done" =>
              /\ cache[Sha256(taskContent[u])] = File(taskContent[u])
              /\ Cardinality({d \in Digests : cache[d] = File(taskContent[u])}) = 1

\* C4 witness: a batch ended in which two URLs delivered the same bytes.
SameContentBatchDone ==
    /\ mainPc = "extend"
    /\ \A u \in URLs : taskPc[u] = "done"
    /\ taskContent[UrlAcme] = taskContent[UrlOther]

\* C5 (as the spec states it): in a round whose namespace request or whose helper
\* failed, the build tool is not started.
SetupFailureIsFatal ==
    (nsOk = "failed" \/ helperPc = "fail") => ~BuildStarted

\* C8 (as the spec states it): when the child died before it sent its report and
\* nothing in the program can take a step any more, the coordinator has failed
\* (it does not sit in a recv() that no message will ever end).
ChildCrashIsFatal ==
    (crashed /\ ~ENABLED Next) => mainPc = "failed"

\* C9: at most one sandboxed child is alive; workers exist only while no child is
\* alive; when process_urls has returned every worker of the batch has ended
\* (stored its blob or dropped its URL); a child is spawned only from the loop
\* head, with no child alive and no worker left.
RoundsSequential ==
    /\ alive <= 1
    /\ (\E u \in URLs : taskPc[u] # "idle") => alive = 0
    /\ mainPc = "extend" => \A u \in URLs : taskPc[u] \in {"idle", "done", "dropped"}
    /\ mainPc = "spawn" => alive = 0 /\ \A u \in URLs : taskPc[u] = "idle"
    /\ alive = 1 => mainPc \in {"recv_ns", "start_helper", "join_helper", "send_ready",
                               "recv_report", "join_child"}

\* C9 witness: the child of the second round is alive after a batch that stored
\* something.
SecondChildAlive == round = 2 /\ alive = 1 /\ all_urls # <<>>

\* C10: when process_urls returns, its result holds exactly one outcome for each
\* URL of the batch whose download succeeded and none for a URL whose download
\* failed; a failed download never makes the coordinator fail, and after the
\* batch the loop goes on with the next round.
BatchResultIsSuccesses ==
    mainPc = "extend" =>
        /\ {new_urls[i].url : i \in 1..Len(new_urls)} = {u \in URLs : taskPc[u] = "done"}
        /\ Len(new_urls) = Cardinality({u \in URLs : taskPc[u] = "done"})
        /\ \A u \in SeqToSet(batch) : taskPc[u] \in {"done", "dropped"}

PartialFailureTolerated ==
    /\ []BatchResultIsSuccesses
    /\ [][ /\ (mainPc = "collect" /\ mainPc' = "failed") => taskPc[batch[got + 1]] = "raised"
           /\ mainPc = "extend" => mainPc' = "spawn"
         ]_vars

\* C10 witness: a batch ended in which one download failed and one succeeded.
PartialBatchEnded ==
    mainPc = "extend" /\ taskPc[UrlAcme] = "dropped" /\ taskPc[UrlOther] = "done"

\* C6 (as the spec states it): a run in which no child dies and no download ever
\* succeeds does not stay in the discovery loop for ever.
LoopIsCapped ==
    <>(mainPc \notin LoopPcs \/ crashed \/ Delivered > 0)

StoreFailureSurfaced ==
    (\E u \in URLs : taskPc[u] = "raised") ~> (mainPc = "failed")

\* The part of C11 the code keeps: a batch with a failed store step never hands
\* a normal result to the coordinator.
StoreFailureNotSwallowed ==
    (\E u \in URLs : taskPc[u] = "raised") => mainPc \in {"collect", "failed"}

\* The URLs of the successful outcomes of all rounds that were not excluded.
AcceptedUrls == {all_urls[i].url : i \in {j \in 1..Len(all_urls) : ~all_urls[j].excluded}}

\* C12 (as the spec states it): the manifest handed to update_spec is the set of
\* the accepted URLs of all rounds: every such URL, nothing else, and each URL
\* once, also when a URL was fetched in more than one round.
ManifestIsAcceptedSet ==
    mainPc = "done" =>
        /\ SeqToSet(manifest) = AcceptedUrls
        /\ \A i, j \in 1..Len(manifest) : manifest[i] = manifest[j] => i = j

\* The part of C12 the code keeps: the manifest holds exactly the accepted URLs,
\* in ascending order, with one entry for every accepted outcome.
ManifestHoldsAcceptedUrls ==
    mainPc = "done" =>
        /\ SeqToSet(manifest) = AcceptedUrls
        /\ Len(manifest) = Cardinality({j \in 1..Len(all_urls) : ~all_urls[j].excluded})
        /\ \A i \in 1..(Len(manifest) - 1) : Rank(manifest[i]) <= Rank(manifest[i + 1])

\* C13 (as the spec states it): update_spec applied to the file it has written,
\* with the same manifest, leaves every byte of the file as it is.
UpdateSpecIdempotent ==
    [][(mainPc = "done" /\ mainPc' = "done") => specFile' = specFile]_vars

\* The part of C13 the code keeps: when no generated block was glued to a last
\* line without newline and no two dependencies of the manifest share a name,
\* the second run writes the bytes of the first.
UpdateSpecIdempotentOnWholeLines ==
    [][ ( /\ mainPc = "done" /\ mainPc' = "done"
          /\ \A i \in 1..Len(specFile) :
                \A k \in 2..Len(specFile[i]) : specFile[i][k] # AUTOGEN_HEADER[1]
          /\ DepsRaise(manifest) \/ Cardinality(deps_names_versions(manifest)) = 1 )
        => specFile' = specFile ]_vars

\* The worker of u is between lock.acquire() and lock.release().
InStore(u) == taskPc[u] \in {"mkdir", "move", "copying", "release"}

\* C14: at most one worker is between acquiring and releasing the lock, and it
\* is the one the lock is held by; the cache changes inside a batch only by a
\* step of that worker, so os.makedirs and shutil.move of two workers never
\* interleave.
StoreMutualExclusion ==
    /\ [](/\ Cardinality({u \in URLs : InStore(u)}) <= 1
          /\ \A u \in URLs : InStore(u) => lock = u)
    /\ [][ (mainPc = "collect" /\ cache' # cache) =>
               \E u \in URLs : /\ lock = u /\ InStore(u) /\ taskPc'[u] # taskPc[u]
                               /\ \A v \in URLs \ {u} : ~InStore(v) /\ taskPc'[v] = taskPc[v]
         ]_vars

\* C14 witness: one worker moves its file into the cache while the other, with
\* the same digest, waits for the lock.
SameDigestWaitsForLock ==
    /\ taskPc[UrlAcme] = "copying" /\ taskPc[UrlOther] = "acquire"
    /\ taskContent[UrlAcme] = taskContent[UrlOther]

\* C15: a worker that is downloading, hashing, waiting for the lock, evaluating
\* the exclusion list or has returned does not hold the lock; the lock is free
\* or held by a worker inside the store step (or by one whose store step raised,
\* see C20).
LockScope ==
    /\ \A u \in URLs :
          taskPc[u] \in {"idle", "download", "hash", "acquire", "exclude", "done", "dropped"}
              => lock # u
    /\ lock # NoTask => lock \in URLs /\ (InStore(lock) \/ taskPc[lock] = "raised")

\* C15 witness: one worker computes its hash while the other, holding the lock,
\* moves its file.
HashOverlapsStore ==
    /\ taskPc[UrlAcme] = "hash" /\ taskPc[UrlOther] = "move" /\ lock = UrlOther

\* C16: the batch of a round holds every reported URL once, however often the
\* report held it, and the result of the batch holds at most one outcome for a
\* URL.
PerRoundDedup ==
    /\ \A i, j \in 1..Len(batch) : batch[i] = batch[j] => i = j
    /\ mainPc \in {"collect", "extend"} => SeqToSet(batch) = SeqToSet(urls)
    /\ \A i, j \in 1..Len(new_urls) : new_urls[i].url = new_urls[j].url => i = j

\* C16 witness: a batch has ended whose report held one URL twice.
DuplicateReportFetchedOnce ==
    /\ mainPc = "extend" /\ urls = <<UrlAcme, UrlAcme>> /\ Len(new_urls) = 1

\* C17: while the coordinator is in the discovery loop no digest directory and
\* no blob is removed; whenever the build tool of a round runs, the blob of every
\* outcome of the earlier rounds, excluded or not, is in the cache with the bytes
\* of its digest; a blob is removed only by the prune step, for an excluded
\* outcome, or with the working tree that compress_cache removes once it is
\* archived.
CacheMonotone ==
    /\ [][ (mainPc \in LoopPcs) =>
              \A d \in Digests : /\ cache[d] # Absent => cache'[d] # Absent
                                 /\ HasFile(d) => cache'[d] \notin {Absent, EmptyDir}
         ]_vars
    /\ []( (childPc = "running" /\ ~crashed) =>
              \A i \in 1..Len(all_urls) :
                  cache[all_urls[i].cache_path] = File(all_urls[i].cache_path[2]) )
    /\ [][ \A d \in Digests :
              (HasFile(d) /\ cache'[d] \in {Absent, EmptyDir}) =>
                  \/ /\ mainPc = "prune" /\ pruneIdx <= Len(all_urls)
                     /\ all_urls[pruneIdx].excluded /\ all_urls[pruneIdx].cache_path = d
                  \/ mainPc = "compress" /\ archive' = <<cache>>
         ]_vars

\* C17 witness: the build tool of the second round runs and the blob of an
\* excluded outcome of the first round is in the cache.
ExcludedBlobKeptForNextRound ==
    /\ round = 2 /\ childPc = "running" /\ ~crashed
    /\ \E i \in 1..Len(all_urls) : all_urls[i].excluded /\ HasFile(all_urls[i].cache_path)

\* C18 (as stated): when the cache has been archived, the blob of every accepted
\* outcome is in the archived tree, with the bytes of its digest.
AcceptedBlobsArchived ==
    Archived =>
        \A i \in 1..Len(all_urls) :
            ~all_urls[i].excluded =>
                archive[1][all_urls[i].cache_path] = File(all_urls[i].cache_path[2])

\* C19 (as stated): every os.unlink of the prune loop finds its file.
PruneTargetsExist ==
    (mainPc = "prune" /\ pruneIdx <= Len(all_urls) /\ all_urls[pruneIdx].excluded)
        => HasFile(all_urls[pruneIdx].cache_path)

\* C20 (as stated): the lock is held only by a worker that is inside the store
\* step; a worker that has left the step, on whatever path, has released it.
LockReleasedOnEveryPath ==
    \A u \in URLs : lock = u => InStore(u)

\* C20, the consequence (as stated): the result collection of a batch ends.
CollectionEnds ==
    (mainPc = "collect") ~> (mainPc # "collect")

====
